---- MODULE Spec2Model ----
(***************************************************************************)
(* SqliteNode.execute (src/nodes/SqliteNode/SqliteNode.node.ts) as a state *)
(* machine: one execute call over a list of input items, against a         *)
(* filesystem of database files.                                           *)
(*                                                                         *)
(* A path is the sequence of its segments below the process's working      *)
(* directory (<<>> is the working directory itself).  A dbName is the      *)
(* sequence of the "/"-separated segments of the string the item supplies: *)
(* <<"a">> is "a", <<"">> is the empty string, <<"..", "wf2", "a">> is     *)
(* "../wf2/a".  A database file's content is the set of row ids of its one *)
(* table.  A query text (with its bound args) is the statement the driver  *)
(* runs for it.                                                            *)
(***************************************************************************)
EXTENDS Integers, Sequences, FiniteSets, TLC

\* ------------------------------------------------------------- bounds
MaxItems == 2

\* ------------------------------------------------------------- inputs
\* The ids the host's getWorkflow() can report ("" stands for a missing id).
HostIds == {"wf2", ""}

DbNames == { <<"a">>, <<"..", "wf2", "a">> }

\* The options of the query_type parameter.
QueryTypes ==
  {"AUTO", "CREATE", "DELETE", "INSERT", "SELECT", "UPDATE", "DELETE_DATABASE"}

RowIds == {1, 2}

\* Query texts, by the statement the driver runs for them.
Queries ==
  [op : {"insert"}, row : RowIds]
    \cup { [op |-> "delete", row |-> 0], [op |-> "select", row |-> 0],
           [op |-> "create", row |-> 0], [op |-> "invalid", row |-> 0] }

\* Values of the args parameter: the default, and a text that is not JSON.
ArgsStrings == {"{}", "{oops"}

\* A file that does not exist, and a file holding the rows rs.
NoFile == [exists |-> FALSE, rows |-> {}]
FileOf(rs) == [exists |-> TRUE, rows |-> rs]

\* An item whose payload the processing leaves as it was.
NoChange == [unchanged |-> TRUE]
Undefined == [undefined |-> TRUE]

VARIABLES
  files,          \* path -> content of the database file there, or NoFile
  dirs,           \* the directories that exist
  openHandles,    \* number of driver handles opened and not closed
  pc,             \* "idle", "loop", "returned" or "thrown"
  workflowId, workflowDir, continueOnFail,
  inputItems,     \* the items as the host handed them in
  items,          \* the item list, mutated in place
  itemIndex,      \* 0-based, as in the source
  spreadResults,
  output,         \* what execute returned (<<>> until it returns)
  log,            \* per processed item: the branch taken and what happened
  inserted        \* dbName -> rows INSERT items of this call put there

vars == << files, dirs, openHandles, pc, workflowId, workflowDir,
           continueOnFail, inputItems, items, itemIndex, spreadResults,
           output, log, inserted >>

\* ------------------------------------------------------------- paths
RECURSIVE NormalizeFrom(_, _)
NormalizeFrom(done, rest) ==
  IF rest = <<>> THEN done
  ELSE LET s == Head(rest) IN
       IF s = "" \/ s = "." THEN NormalizeFrom(done, Tail(rest))
       ELSE IF s = ".."
         THEN IF done # <<>> /\ done[Len(done)] # ".."
                THEN NormalizeFrom(SubSeq(done, 1, Len(done) - 1), Tail(rest))
                ELSE NormalizeFrom(Append(done, ".."), Tail(rest))
         ELSE NormalizeFrom(Append(done, s), Tail(rest))

\* path.join / path.resolve below the working directory: "." and empty
\* segments vanish, ".." removes the segment before it.
Normalize(segs) == NormalizeFrom(<<>>, segs)

\* workflowInfo?.id || 'default_workflow'
WorkflowIdOf(id) == IF id = "" THEN "default_workflow" ELSE id

\* path.resolve('./databases', workflowId)
WorkflowDirOf(wid) == Normalize(<<"databases", wid>>)

\* `${dbName}.db`: the extension is appended to the last segment.
FileName(dbName) ==
  [dbName EXCEPT ![Len(dbName)] = dbName[Len(dbName)] \o ".db"]

\* path.join(workflowDir, `${dbName}.db`)
DbPathOf(wdir, dbName) == Normalize(wdir \o FileName(dbName))

Parent(p) == SubSeq(p, 1, Len(p) - 1)

Prefixes(p) == { SubSeq(p, 1, n) : n \in 0..Len(p) }

\* fs.mkdirSync(workflowDir, { recursive: true }) behind fs.existsSync
MkdirRecursive(ds, d) == IF d \in ds THEN ds ELSE ds \cup Prefixes(d)

AllDirs == { WorkflowDirOf(WorkflowIdOf(h)) : h \in HostIds }

AllPaths == { DbPathOf(d, n) : d \in AllDirs, n \in DbNames }

\* ------------------------------------------------------------- driver
RECURSIVE Ascending(_)
Ascending(S) ==
  IF S = {} THEN <<>>
  ELSE LET m == CHOOSE x \in S : \A y \in S : x <= y
       IN <<m>> \o Ascending(S \ {m})

RowOf(id) == [id |-> id]

\* The rows of a table, in rowid order.
RowsOf(rs) == [k \in 1..Cardinality(rs) |-> RowOf(Ascending(rs)[k])]

\* What sqlite does with a statement on a table holding the rows rs: the
\* error or the new rows, and the rows the statement returns.  An INSERT of
\* a row already there violates the key; an invalid text does not compile.
Driver(stmt, rs) ==
  CASE stmt.op = "insert" ->
         IF stmt.row \in rs
           THEN [error |-> "SQLITE_CONSTRAINT", rows |-> rs, returned |-> <<>>]
           ELSE [error |-> "", rows |-> rs \cup {stmt.row}, returned |-> <<>>]
    [] stmt.op = "delete" -> [error |-> "", rows |-> {}, returned |-> <<>>]
    [] stmt.op = "select" -> [error |-> "", rows |-> rs, returned |-> RowsOf(rs)]
    [] stmt.op = "create" -> [error |-> "", rows |-> rs, returned |-> <<>>]
    [] OTHER -> [error |-> "SQLITE_ERROR", rows |-> rs, returned |-> <<>>]

\* JSON.parse(argsString): the message of the SyntaxError, "" when it parses.
JSONParseError(argsString) ==
  IF argsString = "{}" THEN "" ELSE "Unexpected token"

\* new sqlite3.Database(dbPath): the file is created when it is missing;
\* a file below a directory that does not exist cannot be opened.
CanOpen(ds, dbPath) == Parent(dbPath) \in ds

\* A database opened empty each time.
OpenDatabaseFresh(fs, dbPath) == [fs EXCEPT ![dbPath] = FileOf({})]

OpenDatabase(fs, dbPath) ==
  IF fs[dbPath].exists THEN fs ELSE [fs EXCEPT ![dbPath] = FileOf({})]

\* db.all(query, args, cb): the rows on success.
DbAll(stmt, rs) ==
  LET d == Driver(stmt, rs)
  IN [error |-> d.error, rows |-> d.rows, results |-> d.returned]

\* db.run reporting the number of rows the statement changed.
DbRunAffected(stmt, rs) ==
  LET d == Driver(stmt, rs)
  IN [error |-> d.error, rows |-> d.rows,
      results |-> << [changes |->
                        Cardinality((rs \ d.rows) \cup (d.rows \ rs))] >>]

\* db.run(query, args, cb): resolve([{ changes: 1 }]) on success.
DbRun(stmt, rs) ==
  LET d == Driver(stmt, rs)
  IN [error |-> d.error, rows |-> d.rows, results |-> << [changes |-> 1] >>]

\* AUTO detecting a SELECT text and fetching its rows.
RunStatementDetect(queryType, stmt, rs) ==
  IF queryType = "SELECT" \/ (queryType = "AUTO" /\ stmt.op = "select")
    THEN DbAll(stmt, rs) ELSE DbRun(stmt, rs)

\* The statement goes to db.all for SELECT and to db.run for every other
\* query_type.
RunStatement(queryType, stmt, rs) ==
  IF queryType = "SELECT" THEN DbAll(stmt, rs) ELSE DbRun(stmt, rs)

\* ------------------------------------------------------------- one item
\* What the body of the for loop does for one item, from the parameters the
\* host resolves for it: the filesystem afterwards, the handles opened and
\* closed, the error thrown ("" when none), the item's new payload (NoChange
\* when it is not assigned), the records pushed to spreadResults and the
\* parameters read.

\* DELETE_DATABASE reporting success without unlinking.
DeleteDatabaseKeep(fs, dbPath, dbName) ==
  IF fs[dbPath].exists
    THEN [files |-> fs,
          json |-> [success |-> TRUE,
                    message |-> <<"Database ", dbName, " deleted successfully.">>]]
    ELSE [files |-> fs,
          json |-> [success |-> FALSE,
                    message |-> <<"Database ", dbName, " does not exist.">>]]

\* queryType === 'DELETE_DATABASE': unlink the file when it exists.
DeleteDatabase(fs, dbPath, dbName) ==
  IF fs[dbPath].exists
    THEN [files |-> [fs EXCEPT ![dbPath] = NoFile],
          json |-> [success |-> TRUE,
                    message |-> <<"Database ", dbName, " deleted successfully.">>]]
    ELSE [files |-> fs,
          json |-> [success |-> FALSE,
                    message |-> <<"Database ", dbName, " does not exist.">>]]

\* SELECT keeping the first row only.
SpreadOfFirst(queryType, results) ==
  IF queryType = "SELECT" /\ results # <<>>
    THEN << [json |-> results[1]] >>
    ELSE <<>>

\* results.forEach(push) for SELECT, items[itemIndex].json = results[0]
\* for every other query_type.
SpreadOf(queryType, results) ==
  IF queryType = "SELECT"
    THEN [k \in 1..Len(results) |-> [json |-> results[k]]]
    ELSE <<>>

\* results[0] of an empty list is undefined.
JsonOf(queryType, results) ==
  IF queryType = "SELECT" THEN NoChange
  ELSE IF results = <<>> THEN Undefined ELSE results[1]

\* db.close() is the last statement of the try block: it runs when nothing
\* before it threw.
ClosedAfter(error) == IF error = "" THEN 1 ELSE 0

ItemResult(fs, ds, wdir, dbName, queryType, query, argsString) ==
  LET dbPath == DbPathOf(wdir, dbName) IN
  IF queryType = "DELETE_DATABASE"
    THEN LET d == DeleteDatabase(fs, dbPath, dbName)
         IN [files |-> d.files, opened |-> 0, closed |-> 0, error |-> "",
             json |-> d.json, results |-> <<>>, pushed |-> <<>>,
             read |-> {"dbName", "query_type"}]
  ELSE IF JSONParseError(argsString) # ""
    THEN [files |-> fs, opened |-> 0, closed |-> 0,
          error |-> JSONParseError(argsString),
          json |-> NoChange, results |-> <<>>, pushed |-> <<>>,
          read |-> {"dbName", "query_type", "query", "args"}]
  ELSE IF ~CanOpen(ds, dbPath)
    THEN [files |-> fs, opened |-> 0, closed |-> 0,
          error |-> "SQLITE_CANTOPEN",
          json |-> NoChange, results |-> <<>>, pushed |-> <<>>,
          read |-> {"dbName", "query_type", "query", "args"}]
  ELSE LET opened == OpenDatabase(fs, dbPath)
           r == RunStatement(queryType, query, opened[dbPath].rows)
       IN [files |-> [opened EXCEPT ![dbPath] = FileOf(r.rows)],
           opened |-> 1, closed |-> ClosedAfter(r.error),
           error |-> r.error,
           results |-> IF r.error = "" THEN r.results ELSE <<>>,
           json |-> IF r.error = "" THEN JsonOf(queryType, r.results)
                    ELSE NoChange,
           pushed |-> IF r.error = "" THEN SpreadOf(queryType, r.results)
                      ELSE <<>>,
           read |-> {"dbName", "query_type", "query", "args"}]

\* catch (error): { error: error.message } under continueOnFail.
CaughtJson(message) == [error |-> message]

\* A catch block that always rethrows, and one that never does.
RethrowsAlways(cof) == TRUE
RethrowsNever(cof) == FALSE

\* Whether the catch block rethrows.
Rethrows(cof) == ~cof

\* The payload of item k of the list after the loop body ran on an item.
AssignJson(its, k, res, cof) ==
  IF res.error # ""
    THEN IF Rethrows(cof) THEN its
         ELSE [its EXCEPT ![k] = [json |-> CaughtJson(res.error)]]
    ELSE IF res.json = NoChange THEN its
         ELSE [its EXCEPT ![k] = [json |-> res.json]]

\* this.prepareOutputData(list): the list as the node's one output.
prepareOutputData(list) == << list >>

\* The item list followed by the spread rows.
FinalOutputBoth(spread, its) == prepareOutputData(its \o spread)

\* return spreadResults.length > 0 ? spreadResults : items
FinalOutput(spread, its) ==
  IF Len(spread) > 0 THEN prepareOutputData(spread)
  ELSE prepareOutputData(its)

\* ------------------------------------------------------------- actions
\* The filesystem before the call: nothing below the working directory, or
\* what earlier runs of the workflows left there in their databases "a":
\* rows 1 and 2 for workflow wf2, row 1 for the others.
FreshFiles == [p \in AllPaths |-> NoFile]

EarlierDirs == UNION { Prefixes(d) : d \in AllDirs }

EarlierFiles ==
  [p \in AllPaths |->
     IF p = DbPathOf(WorkflowDirOf("wf2"), <<"a">>) THEN FileOf({1, 2})
     ELSE IF \E d \in AllDirs : p = DbPathOf(d, <<"a">>) THEN FileOf({1})
     ELSE NoFile]

Init ==
  /\ \/ dirs = { <<>> } /\ files = FreshFiles
     \/ dirs = EarlierDirs /\ files = EarlierFiles
  /\ openHandles = 0
  /\ pc = "idle"
  /\ workflowId = "" /\ workflowDir = <<>> /\ continueOnFail = FALSE
  /\ inputItems = <<>> /\ items = <<>> /\ itemIndex = 0
  /\ spreadResults = <<>> /\ output = <<>> /\ log = <<>>
  /\ inserted = [n \in DbNames |-> {}]

\* execute up to its for loop: the input items, the workflow id and the
\* workflow directory, created when it is missing.
Execute ==
  /\ pc = "idle"
  /\ \E n \in 0..MaxItems, id \in HostIds, cof \in BOOLEAN :
       /\ inputItems' = [k \in 1..n |-> [json |-> [input |-> k]]]
       /\ items' = inputItems'
       /\ workflowId' = WorkflowIdOf(id)
       /\ workflowDir' = WorkflowDirOf(workflowId')
       /\ dirs' = MkdirRecursive(dirs, workflowDir')
       /\ continueOnFail' = cof
  /\ pc' = "loop"
  /\ UNCHANGED << files, openHandles, itemIndex, spreadResults, output, log,
                  inserted >>

\* The branch of the loop body a query_type takes.
KindOf(queryType) ==
  IF queryType \in {"SELECT", "DELETE_DATABASE"} THEN queryType ELSE "RUN"

\* The rows a successful INSERT item of this call put into the database of
\* each dbName, with no DELETE_DATABASE and no deleting statement since.
InsertedAfter(ins, dbName, queryType, query, res) ==
  IF queryType = "DELETE_DATABASE" \/ (res.opened = 1 /\ query.op = "delete")
    THEN [n \in DbNames |-> {}]
  ELSE IF queryType = "INSERT" /\ query.op = "insert" /\ res.opened = 1
          /\ res.error = ""
    THEN [ins EXCEPT ![dbName] = @ \cup {query.row}]
  ELSE ins

\* One pass of the for loop, catch block included, for the parameters the
\* host resolves for the item.
ProcessItemWith(dbName, queryType, query, argsString) ==
  /\ pc = "loop"
  /\ itemIndex < Len(items)
  /\ LET res == ItemResult(files, dirs, workflowDir, dbName, queryType,
                           query, argsString)
     IN /\ files' = res.files
        /\ openHandles' = openHandles + res.opened - res.closed
        /\ items' = AssignJson(items, itemIndex + 1, res, continueOnFail)
        /\ spreadResults' = spreadResults \o res.pushed
        /\ pc' = IF res.error # "" /\ Rethrows(continueOnFail)
                   THEN "thrown" ELSE "loop"
        /\ itemIndex' = IF pc' = "thrown" THEN itemIndex ELSE itemIndex + 1
        /\ log' = Append(log,
               [kind |-> KindOf(queryType),
                autoSelect |-> (queryType = "AUTO" /\ query.op = "select"),
                existed |-> files[DbPathOf(workflowDir, dbName)].exists,
                error |-> res.error, opened |-> res.opened,
                closed |-> res.closed, results |-> res.results,
                read |-> res.read])
        /\ inserted' = InsertedAfter(inserted, dbName, queryType, query, res)
  /\ UNCHANGED << dirs, workflowId, workflowDir, continueOnFail, inputItems,
                  output >>

ProcessItem ==
  \E dbName \in DbNames, queryType \in QueryTypes,
     query \in Queries, argsString \in ArgsStrings :
    ProcessItemWith(dbName, queryType, query, argsString)

\* The return statement after the loop.
Return ==
  /\ pc = "loop"
  /\ itemIndex = Len(items)
  /\ output' = FinalOutput(spreadResults, items)
  /\ pc' = "returned"
  /\ UNCHANGED << files, dirs, openHandles, workflowId, workflowDir,
                  continueOnFail, inputItems, items, itemIndex, spreadResults,
                  log, inserted >>

Next == Execute \/ ProcessItem \/ Return

Spec == Init /\ [][Next]_vars

\* ------------------------------------------------------------- claims
Last == log[Len(log)]

\* A step of the loop: one more item processed.
Stepped == Len(log') = Len(log) + 1

Processed == 1..Len(log)

RECURSIVE SelectedUpTo(_)
\* The rows the successful SELECT items 1..n returned, as output records,
\* in item order.
SelectedUpTo(n) ==
  IF n = 0 THEN <<>>
  ELSE SelectedUpTo(n - 1) \o
       (IF log[n].kind = "SELECT" /\ log[n].error = ""
          THEN [k \in 1..Len(log[n].results) |-> [json |-> log[n].results[k]]]
          ELSE <<>>)

Selected == SelectedUpTo(Len(log))

\* The items that took the db.run branch and whose statement succeeded.
RunOk == { k \in Processed : log[k].kind = "RUN" /\ log[k].error = "" }

RunTypes == {"CREATE", "INSERT", "UPDATE", "DELETE"}

Changes1 == [json |-> [changes |-> 1]]

\* C1 as stated: when execute returns, the output holds one record per input
\* item and the record of every successful AUTO, CREATE, INSERT, UPDATE or
\* DELETE item is {changes: 1}, whatever the other items are.
C1_Original ==
  pc = "returned" =>
    \A k \in RunOk :
      Len(output[1]) = Len(inputItems) /\ output[1][k] = Changes1

\* C1 amended: when execute returns and no SELECT item of the call returned a
\* row, the output holds one record per input item and the record of every
\* successful AUTO, CREATE, INSERT, UPDATE or DELETE item is {changes: 1},
\* whatever number of rows its statement affected.
C1_ChangesOne ==
  (pc = "returned" /\ Selected = <<>>) =>
    \A k \in RunOk :
      Len(output[1]) = Len(inputItems) /\ output[1][k] = Changes1

C1_Witness ==
  /\ pc = "returned" /\ Selected = <<>>
  /\ Len(log) >= 2
  /\ 1 \in RunOk
  /\ log[2].kind = "SELECT" /\ log[2].error = ""

\* C2 as stated: when execute returns from a call with a SELECT item, the
\* output is the concatenation, in item order, of the rows the successful
\* SELECT items returned, also when that concatenation is empty.
C2_Original ==
  (pc = "returned" /\ \E k \in Processed : log[k].kind = "SELECT") =>
    output = << Selected >>

\* C2 amended: when execute returns from a call in which a SELECT item
\* returned at least one row, the output is the concatenation, in item
\* order, of the rows the successful SELECT items returned, one record per
\* row.
C2_Flattened ==
  (pc = "returned" /\ Selected # <<>>) => output = << Selected >>

C2_Witness ==
  /\ pc = "returned"
  /\ Len(log) >= 2
  /\ \A k \in {1, 2} : log[k].kind = "SELECT" /\ log[k].error = ""
  /\ Len(log[1].results) = 2
  /\ Len(log[2].results) >= 1
  /\ Len(output[1]) = Len(log[1].results) + Len(log[2].results)

C5_Abort ==
  /\ [][(~continueOnFail /\ Stepped /\ log'[Len(log')].error # "") =>
          /\ pc' = "thrown" /\ output' = <<>>
          /\ items' = items /\ spreadResults' = spreadResults
          /\ Cardinality({ o \in AllPaths : files'[o] # files[o] }) <= 1
          /\ log'[Len(log')].error = JSONParseError("{oops") =>
               /\ log'[Len(log')].opened = 0
               /\ openHandles' = openHandles
               /\ files' = files
       ]_vars
  /\ [][pc # "thrown"]_vars
  /\ [](pc = "thrown" => (output = <<>> /\ ~continueOnFail))

C5_Witness ==
  /\ pc = "thrown"
  /\ Len(log) = 1 /\ Len(inputItems) >= 2
  /\ Last.error = "Unexpected token" /\ Last.opened = 0
  /\ output = <<>>

\* C6: items are processed one at a time in input order, and a successful
\* SELECT returns every row that a successful INSERT item of the same call
\* put into the database of the same dbName, when no DELETE_DATABASE and no
\* deleting statement came in between.
C6_RoundTrip ==
  /\ [][\A n \in DbNames, q \in Queries, a \in ArgsStrings :
          (Stepped /\ log'[Len(log')].kind = "SELECT"
             /\ log'[Len(log')].error = "" /\ q.op = "select"
             /\ ProcessItemWith(n, "SELECT", q, a)) =>
            \A r \in inserted[n] :
              \E k \in 1..Len(log'[Len(log')].results) :
                log'[Len(log')].results[k] = RowOf(r)
       ]_vars
  /\ [][Stepped =>
          /\ Len(log) = itemIndex
          /\ \A k \in 1..Len(items) \ {itemIndex + 1} : items'[k] = items[k]
       ]_vars

C6_Witness ==
  /\ Len(log) = 2
  /\ log[1].kind = "RUN" /\ log[1].error = ""
  /\ inserted[<<"a">>] = {2}
  /\ log[2].kind = "SELECT" /\ log[2].error = ""
  /\ \E k \in 1..Len(log[2].results) : log[2].results[k] = RowOf(2)

\* C7: execute returns the spread-results list alone when it is not empty,
\* and then every record is a row of a SELECT; otherwise it returns the item
\* list, as long as the input and in its order.
C7_FinalOutput ==
  pc = "returned" =>
    /\ spreadResults # <<>> =>
         /\ output = << spreadResults >>
         /\ \A k \in 1..Len(output[1]) :
              \E r \in RowIds : output[1][k] = [json |-> RowOf(r)]
    /\ spreadResults = <<>> =>
         /\ output = << items >>
         /\ Len(output[1]) = Len(inputItems)
         /\ \A k \in 1..Len(items) :
              log[k].kind = "SELECT" /\ log[k].error = ""
                => output[1][k] = inputItems[k]

C7_Witness ==
  /\ pc = "returned"
  /\ spreadResults # <<>>
  /\ Len(log) >= 2
  /\ log[1].kind = "RUN"
  /\ Len(output[1]) # Len(inputItems)

\* C8: no driver handle is left open when the loop moves to the next item,
\* when execute returns or when it throws.
C8_HandlesClosed == openHandles = 0

IsInside(p, d) == Len(p) > Len(d) /\ SubSeq(p, 1, Len(d)) = d

\* C10: a call creates, changes and deletes database files only inside the
\* directory of its own workflow.
C10_Namespaced ==
  [][\A p \in AllPaths :
       files'[p] # files[p] => IsInside(p, workflowDir)]_vars

====
